---- MODULE Spec2Model ----
(***************************************************************************)
(* xdot: symlink the content of the packages under $HOME/.xdot into the    *)
(* file system (src/src/main.rs).                                          *)
(*                                                                         *)
(* The file system is a table of inodes.  A file name is a sequence of     *)
(* tokens (so that the leading `@` of a redirect entry can be stripped as  *)
(* the code strips its first byte), a path is the sequence of the names    *)
(* from the root directory.                                                *)
(***************************************************************************)
EXTENDS Integers, Sequences, FiniteSets, TLC

VARIABLES fs,        \* the inode table
          env,       \* the process environment: variable name -> path
          packages,  \* the package list of the command line
          verbosity, \* the number of -v on the command line
          status,    \* "idle", "running", "ok" (main returned Ok), "failed"
          options,   \* Options of the current run
          queue,     \* packages the loop of main has not reached yet
          stack,     \* the open loops and the pending call, innermost last
          log,       \* what the current run printed, and the error it ended with
          muts,      \* number of symlink/remove_file calls that succeeded in this run
          fsStart,   \* the inode table when the current run started
          prev,      \* the previous run: its options, its start table, its log
          event,     \* what the last step ended: a call that returned, a redirect
          entries    \* the directory entries the loops of this run were handed, in
                     \* order, each with the number of lines printed before it

vars == <<fs, env, packages, verbosity, status, options, queue, stack, log,
          muts, fsStart, prev, event, entries>>

(***************************************************************************)
(* Bounds                                                                  *)
(***************************************************************************)
MaxInodes == 16     \* size of the inode table
MaxFollow == 6      \* symbolic links followed by one path resolution (ELOOP)

Root == 1           \* inode of "/"
Dev == 1            \* the one device

Inodes == 1..MaxInodes

(***************************************************************************)
(* Names and paths                                                         *)
(***************************************************************************)
nH == <<"h">>
nXdot == <<".xdot">>
nA == <<"A">>
nB == <<"B">>
nD == <<"d">>
nF == <<"f">>
nS == <<"s">>
nX == <<"x">>
nY == <<"y">>
nZ == <<"z">>
nGone == <<"gone">>
nConfig == <<".config">>
nCache == <<".cache">>
nLocal == <<".local">>
nShare == <<"share">>
nState == <<"state">>
kData == <<"XDG_DATA_HOME">>
kState == <<"XDG_STATE_HOME">>
kCache == <<"XDG_CACHE_HOME">>
kConfig == <<"XDG_CONFIG_HOME">>
kNope == <<"NOPE">>
mConfig == <<"@">> \o kConfig
mNope == <<"@">> \o kNope

home == <<nH>>
default_xdg_data_home == home \o <<nLocal, nShare>>
default_xdg_state_home == home \o <<nLocal, nState>>
default_xdg_cache_home == home \o <<nCache>>
default_xdg_config_home == home \o <<nConfig>>
packages_root == home \o <<nXdot>>

Front(s) == SubSeq(s, 1, Len(s) - 1)
Last(s) == s[Len(s)]

\* Path::strip_prefix: the components of p after those of base.
StripPrefix(p, base) == SubSeq(p, Len(base) + 1, Len(p))

(***************************************************************************)
(* The file system                                                         *)
(***************************************************************************)
NoEnts == [n \in {} |-> 0]
FreeNode == [t |-> "free", ents |-> NoEnts, target |-> <<>>]
FileNode == [t |-> "file", ents |-> NoEnts, target |-> <<>>]
DirNode == [t |-> "dir", ents |-> NoEnts, target |-> <<>>]
LnkNode(tgt) == [t |-> "lnk", ents |-> NoEnts, target |-> tgt]
\* A FIFO, which stands for every node that is neither a regular file, nor a
\* directory, nor a symbolic link (sockets and devices too).
FifoNode == [t |-> "fifo", ents |-> NoEnts, target |-> <<>>]

EmptyFs == [i \in Inodes |-> IF i = Root THEN DirNode ELSE FreeNode]

\* Path resolution from directory cur: the inode reached, 0 when a component is
\* missing, is no directory, or too many symbolic links are met.  The last
\* component is followed when followLast (stat), left alone otherwise (lstat).
RECURSIVE Walk(_, _, _, _, _)
Walk(f, cur, rest, followLast, budget) ==
    IF rest = <<>> THEN cur
    ELSE IF f[cur].t # "dir" THEN 0
    ELSE IF Head(rest) \notin DOMAIN f[cur].ents THEN 0
    ELSE LET n == f[cur].ents[Head(rest)] IN
         IF f[n].t = "lnk" /\ (Len(rest) > 1 \/ followLast)
         THEN IF budget = 0 THEN 0
              ELSE Walk(f, Root, f[n].target \o Tail(rest), followLast, budget - 1)
         ELSE Walk(f, n, Tail(rest), followLast, budget)

Stat(f, p) == Walk(f, Root, p, TRUE, MaxFollow)
Lstat(f, p) == Walk(f, Root, p, FALSE, MaxFollow)

\* Path::metadata: follows symbolic links.
Metadata(f, p) ==
    LET i == Stat(f, p) IN
    [ok |-> i # 0, ino |-> i, dev |-> Dev,
     is_file |-> i # 0 /\ f[i].t = "file",
     is_dir |-> i # 0 /\ f[i].t = "dir"]

\* The directory that holds the last component of p, 0 when there is none.
ParentDir(f, p) ==
    IF p = <<>> THEN 0
    ELSE LET d == Stat(f, Front(p)) IN
         IF d # 0 /\ f[d].t = "dir" THEN d ELSE 0

FreeInodes(f) == {i \in Inodes : f[i].t = "free"}
Alloc(f) == CHOOSE i \in FreeInodes(f) : \A j \in FreeInodes(f) : i <= j

\* Whether some directory entry still names inode n.
Named(f, n) ==
    \E d \in Inodes : f[d].t = "dir" /\ \E nm \in DOMAIN f[d].ents : f[d].ents[nm] = n

\* A new entry for a new inode holding node, as mkdir, creat and symlink make it.
Create(f, p, node) ==
    LET d == ParentDir(f, p) IN
    IF d = 0 \/ Last(p) \in DOMAIN f[d].ents \/ FreeInodes(f) = {}
    THEN [ok |-> FALSE, fs |-> f]
    ELSE LET n == Alloc(f) IN
         [ok |-> TRUE,
          fs |-> [f EXCEPT ![d].ents = (Last(p) :> n) @@ f[d].ents, ![n] = node]]

\* symlink called with link for both arguments.
SymlinkSelf(f, original, link) == Create(f, link, LnkNode(link))

\* std::os::unix::fs::symlink(original, link): link is made a symbolic link whose
\* text is original; fails when link exists or its directory does not.
Symlink(f, original, link) == Create(f, link, LnkNode(original))

\* link(2), not used by the program: a second name for the file at src.
HardLink(f, src, p) ==
    LET d == ParentDir(f, p)
        n == Lstat(f, src) IN
    IF d = 0 \/ n = 0 \/ Last(p) \in DOMAIN f[d].ents THEN [ok |-> FALSE, fs |-> f]
    ELSE IF f[n].t = "dir" THEN [ok |-> FALSE, fs |-> f]
    ELSE [ok |-> TRUE, fs |-> [f EXCEPT ![d].ents = (Last(p) :> n) @@ f[d].ents]]

\* std::fs::remove_file(p): unlink(2).  The last component is not followed; a
\* directory is refused; the inode is freed with its last name.
RemoveFile(f, p) ==
    LET d == ParentDir(f, p) IN
    IF d = 0 \/ Last(p) \notin DOMAIN f[d].ents THEN [ok |-> FALSE, fs |-> f]
    ELSE LET n == f[d].ents[Last(p)]
             g == [f EXCEPT ![d].ents = [nm \in DOMAIN f[d].ents \ {Last(p)} |-> f[d].ents[nm]]]
         IN  IF f[n].t = "dir" THEN [ok |-> FALSE, fs |-> f]
             ELSE [ok |-> TRUE,
                   fs |-> IF Named(g, n) THEN g ELSE [g EXCEPT ![n] = FreeNode]]

\* Path::read_dir: the names in the directory at p.  The order in which the
\* iterator hands them out is the file system's and is not fixed: see Yields.
ReadDir(f, p) ==
    LET d == Stat(f, p) IN
    IF d = 0 \/ f[d].t # "dir" THEN [ok |-> FALSE, names |-> {}]
    ELSE [ok |-> TRUE, names |-> DOMAIN f[d].ents]

(***************************************************************************)
(* The file systems a run may start from                                   *)
(***************************************************************************)
Mkdir(p) == [op |-> "mkdir", p |-> p, t |-> <<>>]
Mkfile(p) == [op |-> "file", p |-> p, t |-> <<>>]
Mklnk(t, p) == [op |-> "symlink", p |-> p, t |-> t]
Mkhard(t, p) == [op |-> "link", p |-> p, t |-> t]
Mkfifo(p) == [op |-> "fifo", p |-> p, t |-> <<>>]

Apply(f, o) ==
    CASE o.op = "mkdir" -> Create(f, o.p, DirNode).fs
      [] o.op = "file" -> Create(f, o.p, FileNode).fs
      [] o.op = "symlink" -> Symlink(f, o.t, o.p).fs
      [] o.op = "link" -> HardLink(f, o.t, o.p).fs
      [] o.op = "fifo" -> Create(f, o.p, FifoNode).fs

RECURSIVE Build(_, _)
Build(f, ops) == IF ops = <<>> THEN f ELSE Build(Apply(f, Head(ops)), Tail(ops))

pA == packages_root \o <<nA>>
pB == packages_root \o <<nB>>

BaseOps == <<Mkdir(home), Mkdir(packages_root), Mkdir(pA)>>

\* Content of package A: nothing, a directory, a file, a redirect entry for a
\* well-known key, one for another key, a dangling symbolic link.
SrcA ==
    { <<>>,
      <<Mkdir(pA \o <<nD>>), Mkfile(pA \o <<nD, nY>>)>>,
      <<Mkfile(pA \o <<nF>>)>>,
      <<Mkdir(pA \o <<mConfig>>), Mkfile(pA \o <<mConfig, nY>>)>>,
      <<Mkdir(pA \o <<mNope>>), Mkfile(pA \o <<mNope, nY>>)>>,
      <<Mklnk(<<nGone>>, pA \o <<nS>>)>> }

\* Package A with two entries, which its directory may list in either order (a
\* directory beside a file, a redirect entry beside a file), and package A with
\* one directory, holding a file or empty.
SrcA2 ==
    { <<Mkdir(pA \o <<nD>>), Mkfile(pA \o <<nD, nY>>), Mkfile(pA \o <<nF>>)>>,
      <<Mkdir(pA \o <<mNope>>), Mkfile(pA \o <<nF>>)>>,
      <<Mkdir(pA \o <<nD>>), Mkfile(pA \o <<nD, nY>>)>>,
      <<Mkdir(pA \o <<nD>>)>> }

\* Package B, when there is one, and its content.
SrcB ==
    { <<>>,
      <<Mkdir(pB), Mkdir(pB \o <<nD>>), Mkfile(pB \o <<nD, nZ>>)>>,
      <<Mkdir(pB), Mkfile(pB \o <<nF>>)>>,
      <<Mkdir(pB), Mkdir(pB \o <<mConfig>>), Mkfile(pB \o <<mConfig, nY>>)>> }

\* What the destinations hold before the first run.
Dest ==
    { <<>>,
      <<Mkdir(<<nD>>), Mkfile(<<nD, nX>>)>>,
      <<Mkfile(<<nF>>)>>,
      <<Mkhard(pA \o <<nF>>, <<nF>>)>>,
      <<Mklnk(pA \o <<nF>>, <<nF>>)>>,
      <<Mklnk(pA \o <<nD>>, <<nD>>)>>,
      <<Mkdir(default_xdg_config_home)>>,
      <<Mklnk(pA, default_xdg_config_home)>> }

\* The destinations these meet: nothing, a directory, a file, a FIFO.
Dest2 ==
    { <<>>,
      <<Mkdir(<<nD>>), Mkfile(<<nD, nX>>)>>,
      <<Mkfile(<<nF>>)>>,
      <<Mkfifo(<<nD>>)>> }

InitFs ==
    {Build(EmptyFs, BaseOps \o a \o b \o d) : a \in SrcA, b \in SrcB, d \in Dest}
    \cup {Build(EmptyFs, BaseOps \o a \o d) : a \in SrcA2, d \in Dest2}

NoEnv == [k \in {} |-> <<>>]
Envs == {NoEnv, (kConfig :> <<nD>>), (kNope :> pA)}

PkgLists == {<<nA>>, <<nA, nB>>, <<nB, nA>>}

NoEvent == [k |-> "none"]
NoPrev == [status |-> "none"]

Init ==
    /\ fs \in InitFs
    /\ env \in Envs
    /\ packages \in PkgLists
    /\ verbosity \in {0, 1}
    /\ status = "idle"
    /\ options = [verbosity |-> 0, unlink |-> FALSE, dry_run |-> FALSE]
    /\ queue = <<>>
    /\ stack = <<>>
    /\ log = <<>>
    /\ muts = 0
    /\ fsStart = fs
    /\ prev = NoPrev
    /\ event = NoEvent
    /\ entries = <<>>

(***************************************************************************)
(* The program                                                             *)
(***************************************************************************)
\* strip_at_sign_prefix: the name without its leading `@`, as <<rest>>; <<>>
\* (None) when the name does not start with `@`.
strip_at_sign_prefix(file_name) ==
    IF file_name[1] = "@" THEN <<Tail(file_name)>> ELSE <<>>

\* The defaults consulted before the environment.
ResolveDefaultsFirst(env_var_name, e) ==
    IF env_var_name = kData THEN [ok |-> TRUE, link |-> default_xdg_data_home]
    ELSE IF env_var_name = kState THEN [ok |-> TRUE, link |-> default_xdg_state_home]
    ELSE IF env_var_name = kCache THEN [ok |-> TRUE, link |-> default_xdg_cache_home]
    ELSE IF env_var_name = kConfig THEN [ok |-> TRUE, link |-> default_xdg_config_home]
    ELSE IF env_var_name \in DOMAIN e THEN [ok |-> TRUE, link |-> e[env_var_name]]
    ELSE [ok |-> FALSE, link |-> <<>>]

\* main, lines 193-209: the directory a redirect entry is merged into.
ResolveRedirect(env_var_name, e) ==
    IF env_var_name \in DOMAIN e THEN [ok |-> TRUE, link |-> e[env_var_name]]
    ELSE IF env_var_name = kData THEN [ok |-> TRUE, link |-> default_xdg_data_home]
    ELSE IF env_var_name = kState THEN [ok |-> TRUE, link |-> default_xdg_state_home]
    ELSE IF env_var_name = kCache THEN [ok |-> TRUE, link |-> default_xdg_cache_home]
    ELSE IF env_var_name = kConfig THEN [ok |-> TRUE, link |-> default_xdg_config_home]
    ELSE [ok |-> FALSE, link |-> <<>>]

\* The arm of the match of symlink_or_descend that is taken.
Arm(f, original, link) ==
    LET a == Metadata(f, link)
        b == Metadata(f, original) IN
    IF a.ok /\ b.ok /\ a.ino = b.ino /\ a.dev = b.dev THEN "same"
    ELSE IF a.ok THEN "exists"
    ELSE "absent"

\* is_dir written for is_file.
ConflictIfDir(link_metadata) == link_metadata.is_dir

\* Line 275: the destination is in the way.
IsConflict(link_metadata) == link_metadata.is_file

\* The dry_run test left out.
MutatesAlways(opts) == TRUE

\* The dry_run test without its negation.
MutatesInverted(opts) == opts.dry_run

\* Lines 265 and 291: the file system is touched.
Mutates(opts) == ~opts.dry_run

\* Line 252: the destination of a child.
ChildLink(link, file_name) == link \o <<file_name>>

\* Lines 215-218: the destination of a top-level entry.
TopLink(original, package_path) == StripPrefix(original, package_path)

Verbose(lg, line) == IF options.verbosity > 0 THEN Append(lg, line) ELSE lg

\* A loop over the entries of the directory src; todo are the entries listed when
\* the loop began and not handed out yet, known those listed then and the later
\* ones already met.  ret: the loop is the body of the call
\* symlink_or_descend(src, dst), which returns with it and was made when the file
\* system was pre.
IterFrame(isTop, src, dst, names, ret, pre) ==
    [k |-> "iter", top |-> isTop, src |-> src, dst |-> dst, todo |-> names,
     known |-> names, ret |-> ret, pre |-> pre]

\* The pending call symlink_or_descend(original, link).
CallFrame(original, link) ==
    [k |-> "call", top |-> FALSE, src |-> original, dst |-> link, todo |-> {},
     known |-> {}, ret |-> FALSE, pre |-> EmptyFs]

Top == stack[Len(stack)]
Running(kind) == status = "running" /\ stack # <<>> /\ Top.k = kind

\* What the loop may yield next: any of the entries listed and not yet yielded
\* (the order of a listing is the file system's choice), or an entry made in
\* the directory since the loop began (whether readdir reports such an entry is
\* left open by the system).
Yields(fr) ==
    LET late == ReadDir(fs, fr.src).names \ fr.known IN
    {[name |-> nm, fr |-> [fr EXCEPT !.todo = fr.todo \ {nm}]] : nm \in fr.todo}
    \cup {[name |-> nm, fr |-> [fr EXCEPT !.known = fr.known \cup {nm}]] : nm \in late}

\* The entry original has been handed to the body of a loop.
Handed(original) ==
    Append(entries, [original |-> original,
                     at |-> Len(SelectSeq(log, LAMBDA line : line # <<"dry-run">>))])

\* The call symlink_or_descend(original, link), made when the file system was
\* pre, has returned Ok or an error.
Returned(original, link, ok, pre) ==
    [k |-> "return", original |-> original, link |-> link, ok |-> ok, pre |-> pre]

\* An error that leaves the package only: the loop of main goes on.
BailPackage(lg, e, ev) ==
    /\ log' = Append(lg, e)
    /\ stack' = <<>>
    /\ event' = ev
    /\ UNCHANGED <<status, queue>>

\* An error leaves every open call and, through the `?` of main, the run.
Bail(lg, e, ev) ==
    /\ status' = "failed"
    /\ log' = Append(lg, e)
    /\ queue' = <<>>
    /\ stack' = <<>>
    /\ event' = ev

\* descend_and_symlink(original, link) called with the frames below it: the loop
\* over the entries of original is opened, or read_dir fails.
DescendAndSymlink(below, lg, original, link, ret, ev) ==
    LET rd == ReadDir(fs, original) IN
    IF rd.ok
    THEN /\ stack' = Append(below, IterFrame(FALSE, original, link, rd.names, ret,
                                             IF ret THEN fs ELSE EmptyFs))
         /\ log' = lg
         /\ event' = ev
         /\ UNCHANGED <<status, queue>>
    ELSE Bail(lg, <<"error", "descend", original>>,
              IF ret THEN Returned(original, link, FALSE, fs) ELSE ev)

\* main, lines 121-169: a run begins.
StartRun(unlink, dry_run) ==
    /\ status \in {"idle", "ok", "failed"}
    /\ status' = "running"
    /\ options' = [verbosity |-> verbosity, unlink |-> unlink, dry_run |-> dry_run]
    /\ queue' = packages
    /\ stack' = <<>>
    /\ log' = IF dry_run THEN <<<<"dry-run">>>> ELSE <<>>
    /\ muts' = 0
    /\ fsStart' = fs
    /\ prev' = IF status = "idle" THEN NoPrev
               ELSE [status |-> status, options |-> options, fsBefore |-> fsStart,
                     log |-> log, muts |-> muts, entries |-> entries]
    /\ event' = NoEvent
    /\ entries' = <<>>
    /\ UNCHANGED <<fs, env, packages, verbosity>>

\* main, lines 171-189: the next package is announced and its directory read.
NextPackage ==
    /\ status = "running" /\ stack = <<>> /\ queue # <<>>
    /\ LET package == Head(queue)
           package_path == packages_root \o <<package>>
           lg == Append(log, <<"package", options.unlink, package, package_path>>)
           rd == ReadDir(fs, package_path) IN
       IF rd.ok
       THEN /\ stack' = <<IterFrame(TRUE, package_path, <<>>, rd.names, FALSE, EmptyFs)>>
            /\ queue' = Tail(queue)
            /\ log' = lg
            /\ event' = NoEvent
            /\ UNCHANGED status
       ELSE Bail(lg, <<"error", "read_package", package_path>>, NoEvent)
    /\ UNCHANGED <<fs, env, packages, verbosity, options, muts, fsStart, prev, entries>>

\* main, lines 192-211: a top-level entry named @KEY; its children are merged
\* into the directory KEY stands for.
EntryRedirect ==
    /\ Running("iter") /\ Top.top
    /\ \E y \in Yields(Top) :
         /\ strip_at_sign_prefix(y.name) # <<>>
         /\ LET env_var_name == strip_at_sign_prefix(y.name)[1]
                r == ResolveRedirect(env_var_name, env)
                original == Top.src \o <<y.name>> IN
            /\ entries' = Handed(original)
            /\ IF r.ok
               THEN DescendAndSymlink(Append(Front(stack), y.fr), log, original, r.link,
                                      FALSE,
                                      [k |-> "redirect", key |-> env_var_name, ok |-> TRUE])
               ELSE Bail(log, <<"error", "env", env_var_name>>,
                         [k |-> "redirect", key |-> env_var_name, ok |-> FALSE])
    /\ UNCHANGED <<fs, env, packages, verbosity, options, muts, fsStart, prev>>

\* Lines 213-220 and 252: the next entry of a loop is handed to symlink_or_descend.
EntryCall ==
    /\ Running("iter")
    /\ \E y \in Yields(Top) :
         /\ ~(Top.top /\ strip_at_sign_prefix(y.name) # <<>>)
         /\ LET original == Top.src \o <<y.name>>
                link == IF Top.top THEN TopLink(original, Top.src)
                        ELSE ChildLink(Top.dst, y.name) IN
            /\ stack' = Front(stack) \o <<y.fr, CallFrame(original, link)>>
            /\ entries' = Handed(original)
    /\ event' = NoEvent
    /\ UNCHANGED <<fs, env, packages, verbosity, status, options, queue, log, muts,
                   fsStart, prev>>

\* Lines 261-273: link and original are the same object.
CallSame ==
    /\ Running("call")
    /\ LET original == Top.src
           link == Top.dst IN
       /\ Arm(fs, original, link) = "same"
       /\ IF options.unlink
          THEN LET lg == Append(log, <<"remove", link>>)
                   r == IF Mutates(options) THEN RemoveFile(fs, link)
                        ELSE [ok |-> TRUE, fs |-> fs] IN
               IF r.ok
               THEN /\ fs' = r.fs
                    /\ muts' = IF Mutates(options) THEN muts + 1 ELSE muts
                    /\ log' = lg
                    /\ stack' = Front(stack)
                    /\ event' = Returned(original, link, TRUE, fs)
                    /\ UNCHANGED <<status, queue>>
               ELSE /\ Bail(lg, <<"error", "remove", link>>, Returned(original, link, FALSE, fs))
                    /\ UNCHANGED <<fs, muts>>
          ELSE /\ log' = Verbose(log, <<"skip-preexisting", link>>)
               /\ stack' = Front(stack)
               /\ event' = Returned(original, link, TRUE, fs)
               /\ UNCHANGED <<fs, muts, status, queue>>
    /\ UNCHANGED <<env, packages, verbosity, options, fsStart, prev, entries>>

\* Lines 274-286: link exists and is another object: a conflict when it is a file,
\* a directory to descend into otherwise.
CallExists ==
    /\ Running("call")
    /\ LET original == Top.src
           link == Top.dst IN
       /\ Arm(fs, original, link) = "exists"
       /\ IF IsConflict(Metadata(fs, link))
          THEN Bail(log, <<"error", "exists", link>>, Returned(original, link, FALSE, fs))
          ELSE DescendAndSymlink(Front(stack), Verbose(log, <<"descend", link>>),
                                 original, link, TRUE, NoEvent)
    /\ UNCHANGED <<fs, env, packages, verbosity, options, muts, fsStart, prev, entries>>

\* Lines 287-305: link does not exist.
CallAbsent ==
    /\ Running("call")
    /\ LET original == Top.src
           link == Top.dst IN
       /\ Arm(fs, original, link) = "absent"
       /\ IF ~options.unlink
          THEN LET lg == Append(log, <<"create", link, original>>)
                   r == IF Mutates(options) THEN Symlink(fs, original, link)
                        ELSE [ok |-> TRUE, fs |-> fs] IN
               IF r.ok
               THEN /\ fs' = r.fs
                    /\ muts' = IF Mutates(options) THEN muts + 1 ELSE muts
                    /\ log' = lg
                    /\ stack' = Front(stack)
                    /\ event' = Returned(original, link, TRUE, fs)
                    /\ UNCHANGED <<status, queue>>
               ELSE /\ Bail(lg, <<"error", "symlink", link, original>>,
                            Returned(original, link, FALSE, fs))
                    /\ UNCHANGED <<fs, muts>>
          ELSE /\ log' = Verbose(log, <<"skip-nonexistent", link>>)
               /\ stack' = Front(stack)
               /\ event' = Returned(original, link, TRUE, fs)
               /\ UNCHANGED <<fs, muts, status, queue>>
    /\ UNCHANGED <<env, packages, verbosity, options, fsStart, prev, entries>>

\* Lines 253-255, 283-285 and 222: a loop ends; descend_and_symlink returns Ok,
\* and with it the call of symlink_or_descend that descended.
LoopEnd ==
    /\ Running("iter") /\ Top.todo = {}
    /\ stack' = Front(stack)
    /\ event' = IF Top.ret THEN Returned(Top.src, Top.dst, TRUE, Top.pre) ELSE NoEvent
    /\ UNCHANGED <<fs, env, packages, verbosity, status, options, queue, log, muts,
                   fsStart, prev, entries>>

\* Line 225: main returns Ok.
Finish ==
    /\ status = "running" /\ stack = <<>> /\ queue = <<>>
    /\ status' = "ok"
    /\ event' = NoEvent
    /\ UNCHANGED <<fs, env, packages, verbosity, options, queue, stack, log, muts,
                   fsStart, prev, entries>>

Next ==
    \/ \E unlink \in BOOLEAN, dry_run \in BOOLEAN : StartRun(unlink, dry_run)
    \/ NextPackage
    \/ EntryRedirect
    \/ EntryCall
    \/ CallSame
    \/ CallExists
    \/ CallAbsent
    \/ LoopEnd
    \/ Finish

Spec == Init /\ [][Next]_vars

(***************************************************************************)
(* Vocabulary of the properties                                            *)
(***************************************************************************)
Done == status \in {"ok", "failed"}

\* The previous run was a completed link run that touched the file system.
AfterLinkRun ==
    prev.status = "ok" /\ ~prev.options.unlink /\ ~prev.options.dry_run

IsError(line, kind) == Len(line) >= 2 /\ line[1] = "error" /\ line[2] = kind

FailedWith(kind) == status = "failed" /\ log # <<>> /\ IsError(Last(log), kind)

\* The two paths name one object (device and inode).
SameObject(f, p, q) ==
    Stat(f, p) # 0 /\ Stat(f, p) = Stat(f, q)

\* The directories of the packages' source trees: the package directories and
\* the directories below them.
RECURSIVE Under(_, _)
Under(f, d) ==
    {d} \cup UNION {Under(f, f[d].ents[nm]) :
                     nm \in {n \in DOMAIN f[d].ents : f[f[d].ents[n]].t = "dir"}}

SourceDirs(f) ==
    UNION {Under(f, Lstat(f, packages_root \o <<pk>>)) :
           pk \in {n \in {nA, nB} : Lstat(f, packages_root \o <<n>>) # 0}}

\* The entries (directory, name) of f that f2 no longer has.
RemovedEntries(f, f2) ==
    {e \in UNION {{<<d, nm>> : nm \in DOMAIN f[d].ents} : d \in {i \in Inodes : f[i].t = "dir"}} :
        f2[e[1]].t # "dir" \/ e[2] \notin DOMAIN f2[e[1]].ents}

(***************************************************************************)
(* C1.  Idempotence: after a completed merge run (unlink=false,            *)
(* dry_run=false), the run that follows it with the same packages and      *)
(* flags makes no symlink, removes no entry, and leaves the file system as *)
(* the first run left it.                                                  *)
(***************************************************************************)
C1_Idempotent ==
    (AfterLinkRun /\ ~options.unlink /\ ~options.dry_run)
        => (muts = 0 /\ fs = fsStart)

(***************************************************************************)
(* C2.  Round trip: a merge run followed by an unlink run on the same      *)
(* packages removes exactly the links the first run made; in particular    *)
(* every link the first run made is gone after the second run, its inode   *)
(* free again.                                                             *)
(***************************************************************************)
C2_RoundTrip ==
    (AfterLinkRun /\ status = "ok" /\ options.unlink /\ ~options.dry_run)
        => \A i \in Inodes :
              (prev.fsBefore[i].t = "free" /\ fsStart[i].t = "lnk") => fs[i].t = "free"

\* What a log reports as done or refused: links made, links removed, conflicts.
IsAction(line) ==
    line[1] \in {"create", "remove"} \/ IsError(line, "exists")
Reports(lg) == SelectSeq(lg, IsAction)

\* A log without the banner of a dry run.
Body(lg) == SelectSeq(lg, LAMBDA line : line # <<"dry-run">>)

\* The position of the first link made or removed that lg reports, its length
\* when it reports none.
FirstChange(lg) ==
    LET at == {i \in 1..Len(lg) : lg[i][1] \in {"create", "remove"}} IN
    IF at = {} THEN Len(lg) ELSE CHOOSE i \in at : \A j \in at : i <= j

\* A dry run has ended and the same run without dry_run has ended after it.
DryThenReal ==
    /\ Done /\ prev.status \in {"ok", "failed"}
    /\ prev.options.dry_run /\ ~options.dry_run
    /\ prev.options.unlink = options.unlink

\* The entries a run was handed before it printed line k.
HandedBefore(es, k) == SelectSeq(es, LAMBDA e : e.at < k)

\* Two runs were handed the same entries in the same order, as far as both went.
SameOrder(es1, es2) ==
    \A i \in 1..Len(es1) : i <= Len(es2) => es1[i].original = es2[i].original

(***************************************************************************)
(* C3, as stated.  A run with dry_run=true leaves the file system          *)
(* unchanged and reports the same sequence of actions (links to make,      *)
(* links to remove, conflicts) as the same run from the same state with    *)
(* dry_run=false (the same run: the directories list their entries to both *)
(* in the same order).                                                     *)
(***************************************************************************)
C3_DryRunSameReports ==
    /\ options.dry_run => fs = fsStart
    /\ (DryThenReal /\ SameOrder(prev.entries, entries))
          => (fsStart = prev.fsBefore /\ Reports(prev.log) = Reports(log))

(***************************************************************************)
(* C3, amended.  A run with dry_run=true leaves the file system unchanged, *)
(* and what it prints is what the same run with dry_run=false prints up to *)
(* and including the first link the latter reports to make or remove (all  *)
(* of it when the latter reports none), provided the directories list      *)
(* their entries to both runs in the same order up to there.               *)
(***************************************************************************)
C3_DryRunPrefix ==
    /\ options.dry_run => (fs = fsStart /\ muts = 0)
    /\ DryThenReal =>
          /\ fsStart = prev.fsBefore
          /\ LET real == Body(log)
                 dry == Body(prev.log)
                 k == FirstChange(real)
                 quiet == \A i \in 1..Len(real) : real[i][1] \notin {"create", "remove"}
                 upTo == IF quiet THEN entries ELSE HandedBefore(entries, k) IN
             SameOrder(prev.entries, upTo) =>
                /\ Len(dry) >= k
                /\ SubSeq(dry, 1, k) = SubSeq(real, 1, k)
                /\ quiet => dry = real

\* A dry run reported two links for the two entries of a directory, and the real
\* run after it, handed them in the same order, made both and printed the same.
C3_Witness ==
    /\ DryThenReal /\ status = "ok" /\ prev.status = "ok"
    /\ ~options.unlink /\ muts = 2
    /\ Len(entries) = 2 /\ Len(prev.entries) = 2
    /\ SameOrder(prev.entries, entries)
    /\ Front(entries[1].original) = Front(entries[2].original)
    /\ Body(prev.log) = Body(log)

(***************************************************************************)
(* C4.  Conflict detection: a call of symlink_or_descend whose destination *)
(* exists, is a regular file and is not the same object as the source      *)
(* fails with "<destination> already exists" and changes nothing in the    *)
(* file system, whatever unlink and dry_run are.                           *)
(***************************************************************************)
C4_ConflictDetected ==
    [][(/\ Running("call")
        /\ Stat(fs, Top.dst) # 0
        /\ fs[Stat(fs, Top.dst)].t = "file"
        /\ Stat(fs, Top.dst) # Stat(fs, Top.src))
       => (/\ status' = "failed"
           /\ log' = Append(log, <<"error", "exists", Top.dst>>)
           /\ event' = Returned(Top.src, Top.dst, FALSE, fs)
           /\ fs' = fs)]_vars

\* The conflict was met in an unlink run that was a dry run too.
C4_Witness ==
    /\ FailedWith("exists")
    /\ options.unlink /\ options.dry_run
    /\ fs[Stat(fs, Last(log)[3])].t = "file"
    /\ event.k = "return" /\ ~event.ok

(***************************************************************************)
(* C5.  Unlink safety: the only entries a run ever removes are symbolic    *)
(* links at a destination that point at the expected source; a regular     *)
(* file is never removed, nor a directory.                                 *)
(***************************************************************************)
C5_OnlyLinksRemoved ==
    [][\A e \in RemovedEntries(fs, fs') :
          /\ fs[fs[e[1]].ents[e[2]]].t = "lnk"
          /\ Running("call") /\ fs[fs[e[1]].ents[e[2]]].target = Top.src]_vars

(***************************************************************************)
(* C6.  Source trees are never mutated: no run creates or deletes an entry *)
(* in a package directory or in a directory below one.                     *)
(***************************************************************************)
C6_SourceUntouched ==
    [][\A d \in SourceDirs(fs) : fs'[d] = fs[d]]_vars

\* Exactly one of the statements of a sequence holds.
ExactlyOne(bs) == Cardinality({i \in 1..Len(bs) : bs[i]}) = 1

\* A symbolic link sits at path link and its text is original.
LinkAt(f, link, original) ==
    Lstat(f, link) # 0 /\ f[Lstat(f, link)] = LnkNode(original)

(***************************************************************************)
(* C7, as stated.  When a call of symlink_or_descend on (source,           *)
(* destination) ends, exactly one holds: (1) a symlink at destination      *)
(* points at source (read widely: destination is the source object, by a   *)
(* link or otherwise); (2) destination does not exist and the operation    *)
(* was suppressed (unlink mode, or dry run); (3) the call failed.          *)
(***************************************************************************)
C7_Outcome ==
    event.k = "return" =>
        ExactlyOne(<<LinkAt(fs, event.link, event.original)
                        \/ SameObject(fs, event.link, event.original),
                     Stat(fs, event.link) = 0 /\ (options.unlink \/ options.dry_run),
                     ~event.ok>>)

(***************************************************************************)
(* C7, amended.  When a call of symlink_or_descend on (source,             *)
(* destination) ends, exactly one holds: (1) it returned Ok and            *)
(* destination is the same object as source; (2) it returned Ok and        *)
(* destination resolves to no object; (3) it failed, and the error has     *)
(* ended the processing of the package and of the whole run; (4) it        *)
(* returned Ok and destination is an object other than source that is no   *)
(* regular file (a directory, the merge point, or a FIFO, socket or        *)
(* device), which the call descended past.  A link run that is no dry run  *)
(* ends a call in (1), (3), (4), or in (2) with a symlink to source at     *)
(* destination that resolves to nothing; an unlink run that is no dry run  *)
(* ends a call in (2), (3) or (4).                                         *)
(***************************************************************************)
C7_OutcomeAmended ==
    event.k = "return" =>
        LET d == Stat(fs, event.link)
            same == event.ok /\ d # 0 /\ d = Stat(fs, event.original)
            none == event.ok /\ d = 0
            failed == ~event.ok /\ status = "failed" /\ stack = <<>> /\ queue = <<>>
            past == event.ok /\ d # 0 /\ d # Stat(fs, event.original) /\ fs[d].t # "file"
        IN  /\ ExactlyOne(<<same, none, failed, past>>)
            /\ (~options.unlink /\ ~options.dry_run /\ none)
                  => LinkAt(fs, event.link, event.original)
            /\ (options.unlink /\ ~options.dry_run) => ~same

\* A call returned Ok at a merge point: the destination is a directory that holds
\* a link made for a child, and is not the source.
C7_Witness ==
    /\ event.k = "return" /\ event.ok
    /\ Stat(fs, event.link) # 0 /\ fs[Lstat(fs, event.link)].t = "dir"
    /\ Stat(fs, event.link) # Stat(fs, event.original)
    /\ \E nm \in DOMAIN fs[Stat(fs, event.link)].ents :
          LinkAt(fs, event.link \o <<nm>>, event.original \o <<nm>>)

\* The packages a log announces.
Headers(lg) ==
    LET hs == SelectSeq(lg, LAMBDA line : line[1] = "package") IN
    [i \in 1..Len(hs) |-> hs[i][3]]

(***************************************************************************)
(* C8, as stated.  When a redirect key is found neither in the environment *)
(* nor among the four defaults, the package is aborted with an error that  *)
(* names the key and the packages after it are still processed.            *)
(***************************************************************************)
C8_LaterPackagesProcessed ==
    FailedWith("env") =>
        /\ Last(log)[3] \notin DOMAIN env
        /\ Headers(log) = packages

(***************************************************************************)
(* C8, amended.  When a redirect key is found neither in the environment   *)
(* nor among the four defaults, the error that names the key ends the      *)
(* whole run: it is the last thing the run prints, the run has failed, and *)
(* the packages after the failing one are never announced nor processed.   *)
(***************************************************************************)
C8_RedirectAbortsRun ==
    \A i \in 1..Len(log) :
        IsError(log[i], "env") =>
            /\ log[i][3] \notin DOMAIN env
            /\ log[i][3] \notin {kData, kState, kCache, kConfig}
            /\ i = Len(log)
            /\ status = "failed" /\ queue = <<>> /\ stack = <<>>
            /\ Headers(log) = SubSeq(packages, 1, Len(Headers(log)))

\* The first of two packages failed on its redirect; the second was never reached.
C8_Witness ==
    /\ FailedWith("env")
    /\ Last(log)[3] = kNope
    /\ Len(packages) = 2 /\ Headers(log) = <<packages[1]>>

\* In file system f, destination D is a directory of its own (no link) and source
\* S is another directory.
MergePoint(f, S, D) ==
    /\ Lstat(f, D) # 0 /\ f[Lstat(f, D)].t = "dir"
    /\ Stat(f, S) # 0 /\ f[Stat(f, S)].t = "dir"
    /\ Stat(f, S) # Lstat(f, D)

\* The names of the regular files in the directory at p.
FilesIn(f, p) ==
    {nm \in DOMAIN f[Stat(f, p)].ents : f[f[Stat(f, p)].ents[nm]].t = "file"}

(***************************************************************************)
(* C9.  Merge into an existing directory: in a link run that is no dry     *)
(* run, when the call on (S, D) returns Ok, where D was a directory other  *)
(* than S when the call was made, D is still that directory, every regular *)
(* file x it held is still there unchanged, and for every regular file y   *)
(* of S for which D had no entry there is a symlink at D/y pointing at     *)
(* S/y.                                                                    *)
(***************************************************************************)
C9_MergeIntoDirectory ==
    (/\ event.k = "return" /\ event.ok
     /\ ~options.unlink /\ ~options.dry_run
     /\ MergePoint(event.pre, event.original, event.link))
    => LET S == event.original
           D == event.link
           pre == event.pre
           d == Lstat(pre, D) IN
       /\ Lstat(fs, D) = d /\ fs[d].t = "dir"
       /\ \A x \in FilesIn(pre, D) :
             /\ x \in DOMAIN fs[d].ents
             /\ fs[d].ents[x] = pre[d].ents[x]
             /\ fs[fs[d].ents[x]] = FileNode
       /\ \A y \in FilesIn(pre, S) \ DOMAIN pre[d].ents :
             LinkAt(fs, D \o <<y>>, S \o <<y>>)

\* /d held the file x, package A holds d/y: the call on (A/d, /d) returned Ok
\* with /d/y linked beside x.
C9_Witness ==
    /\ event.k = "return" /\ event.ok
    /\ event.original = pA \o <<nD>> /\ event.link = <<nD>>
    /\ ~options.unlink /\ ~options.dry_run
    /\ MergePoint(event.pre, pA \o <<nD>>, <<nD>>)
    /\ nX \in FilesIn(event.pre, <<nD>>)
    /\ nY \notin DOMAIN event.pre[Lstat(event.pre, <<nD>>)].ents
    /\ nX \in FilesIn(fs, <<nD>>)
    /\ LinkAt(fs, <<nD, nY>>, pA \o <<nD, nY>>)

\* The directory the key stands for by convention.
ConventionalDir(key) ==
    CASE key = kData -> <<nH, nLocal, nShare>>
      [] key = kState -> <<nH, nLocal, nState>>
      [] key = kCache -> <<nH, nCache>>
      [] key = kConfig -> <<nH, nConfig>>

AllKeys == {kData, kState, kCache, kConfig, kNope}

(***************************************************************************)
(* C10.  Redirect resolution order: a key resolves to the value the        *)
(* environment gives it, when it gives one, even for the four well-known   *)
(* keys; otherwise to the conventional directory of a well-known key;      *)
(* otherwise the entry fails with an error naming the key and the file     *)
(* system is not touched.  The children of the entry are merged into the   *)
(* resolved directory.                                                     *)
(***************************************************************************)
C10_RedirectOrder ==
    /\ \A key \in AllKeys, e \in Envs \cup {(kData :> <<nD>>), (kCache :> <<nF>>)} :
          ResolveRedirect(key, e) =
              IF key \in DOMAIN e THEN [ok |-> TRUE, link |-> e[key]]
              ELSE IF key = kNope THEN [ok |-> FALSE, link |-> <<>>]
              ELSE [ok |-> TRUE, link |-> ConventionalDir(key)]
    /\ [][(event'.k = "redirect") =>
         LET key == event'.key
             into(dir) ==
                 /\ event'.ok
                 /\ fs' = fs
                 /\ \/ /\ status' = "running"
                       /\ stack'[Len(stack')].k = "iter"
                       /\ stack'[Len(stack')].src = Top.src \o <<(<<"@">> \o key)>>
                       /\ stack'[Len(stack')].dst = dir
                    \/ /\ status' = "failed"
                       /\ IsError(Last(log'), "descend")
         IN  /\ Running("iter") /\ Top.top
             /\ ResolveRedirect(key, env).ok = event'.ok
             /\ IF key \in DOMAIN env THEN into(env[key])
                ELSE IF key \in {kData, kState, kCache, kConfig} THEN into(ConventionalDir(key))
                ELSE /\ ~event'.ok
                     /\ status' = "failed"
                     /\ log' = Append(log, <<"error", "env", key>>)
                     /\ fs' = fs]_vars

\* The environment gives XDG_CONFIG_HOME a value and the children of the entry
\* are being merged into it, not into the conventional directory.
C10_Witness ==
    /\ event = [k |-> "redirect", key |-> kConfig, ok |-> TRUE]
    /\ kConfig \in DOMAIN env
    /\ Running("iter") /\ Top.dst = env[kConfig]
    /\ Top.dst # ConventionalDir(kConfig)

====
